---- MODULE Spec2Model ----
(***************************************************************************)
(* mini-bitcask-rs: a single-file, log-structured key-value store.         *)
(*                                                                         *)
(* The model keeps the data file and the merge sibling as sequences of     *)
(* cells (bytes in radix ByteBase), the file-system name table, the        *)
(* advisory locks, and every store instance's Log handle and key           *)
(* directory.  Positions are 0-based as in the source: the byte at offset  *)
(* p of a file f is f[p + 1].                                              *)
(***************************************************************************)
EXTENDS Integers, Sequences, FiniteSets, TLC

VARIABLES path, names, disk, locks, stores, kv, last, faults, dirty

vars == <<path, names, disk, locks, stores, kv, last, faults, dirty>>

(***************************************************************************)
(* Bounds of the model.                                                    *)
(***************************************************************************)
\* radix of one cell of a file ("byte"); the source's bytes are radix 256
ByteBase == 3
\* appends are explored while the file stays within this many cells
MaxFileLen == 30
\* failed or killed writes that one behaviour may hold
MaxFaults == 1

(***************************************************************************)
(* Program constants.                                                      *)
(***************************************************************************)
KEY_VAL_HEADER_LEN == 4

MERGE_FILE_EXT == "merge"

\* number of values of one header field: 2^32 in the source
Modulus == ByteBase * ByteBase * ByteBase * ByteBase

(***************************************************************************)
(* Inputs.                                                                 *)
(***************************************************************************)
Keys == { <<>>, <<1>> }

Values == { <<>>, <<2, 0>> }

\* file names, as tokens; "." separates the extension
Paths == { <<"log">>, <<"db", ".", "log">>, <<"db", ".", "merge">> }

Instances == {1, 2}

\* the keys of the stores that are scanned, and the bounds and prefixes of
\* the scans; ByteBase - 1 is the largest byte (0xFF in the source)
ScanKeys == { <<1>>, <<1, 2>>, <<2>> }

Prefixes == { <<>>, <<1>>, <<1, 2>>, <<2>> }

AllKeys == Keys \cup ScanKeys

(***************************************************************************)
(* Option and Result values.                                               *)
(***************************************************************************)
None == <<>>

Some(v) == <<v>>

Ok(v) == [ok |-> TRUE, val |-> v]

Err == [ok |-> FALSE, val |-> <<>>]

Closed == [open |-> FALSE]

(***************************************************************************)
(* Integer conversions of the header fields.                               *)
(***************************************************************************)
\* `x as u32`
as_u32(x) == x % Modulus

\* `x as i32`: two's complement reading of the low bits
as_i32(x) ==
    LET u == x % Modulus
    IN  IF 2 * u >= Modulus THEN u - Modulus ELSE u

RECURSIVE Digits(_, _)
Digits(u, n) ==
    IF n = 0 THEN <<>>
    ELSE Append(Digits(u \div ByteBase, n - 1), u % ByteBase)

\* u32::to_be_bytes / i32::to_be_bytes
to_be_bytes(x) == Digits(x % Modulus, KEY_VAL_HEADER_LEN)

RECURSIVE Undigits(_)
Undigits(buf) ==
    IF buf = <<>> THEN 0
    ELSE Undigits(SubSeq(buf, 1, Len(buf) - 1)) * ByteBase + buf[Len(buf)]

\* u32::from_be_bytes
u32_from_be_bytes(buf) == Undigits(buf)

\* i32::from_be_bytes
i32_from_be_bytes(buf) == as_i32(Undigits(buf))

(***************************************************************************)
(* Paths.                                                                  *)
(***************************************************************************)
\* index of the "." that starts the extension, 0 when there is none
ExtDot(p) ==
    LET dots == { i \in 2..Len(p) : p[i] = "." }
    IN  IF dots = {} THEN 0
        ELSE CHOOSE i \in dots : \A j \in dots : j <= i

\* PathBuf::set_extension
set_extension(p, ext) ==
    LET stem == IF ExtDot(p) = 0 THEN p ELSE SubSeq(p, 1, ExtDot(p) - 1)
    IN  stem \o <<".", ext>>

(***************************************************************************)
(* Keys are ordered as byte sequences (Vec<u8> : Ord).                     *)
(***************************************************************************)
RECURSIVE LexLess(_, _)
LexLess(a, b) ==
    IF b = <<>> THEN FALSE
    ELSE IF a = <<>> THEN TRUE
    ELSE IF a[1] # b[1] THEN a[1] < b[1]
    ELSE LexLess(Tail(a), Tail(b))

\* the iteration order of a BTreeMap over the key set S
RECURSIVE KeyOrder(_)
KeyOrder(S) ==
    IF S = {} THEN <<>>
    ELSE LET m == CHOOSE k \in S : \A o \in S : o = k \/ LexLess(k, o)
         IN  <<m>> \o KeyOrder(S \ {m})

(***************************************************************************)
(* Small helpers on functions and sequences.                               *)
(***************************************************************************)
Min(a, b) == IF a < b THEN a ELSE b

Max(a, b) == IF a > b THEN a ELSE b

Zeros(n) == [i \in 1..n |-> 0]

\* F applied to the value of e, computed once
Bind(e, F(_)) == CHOOSE out \in { F(x) : x \in {e} } : TRUE

\* f with key k removed
Remove(f, k) == Bind(f, LAMBDA g : [x \in (DOMAIN g) \ {k} |-> g[x]])

\* f with k mapped to e (inserted or overwritten)
Insert(f, k, e) == (k :> e) @@ f

EmptyMap == [x \in {} |-> 0]

(***************************************************************************)
(* Reads.                                                                  *)
(***************************************************************************)
\* Read::read_exact at position pos of file f into buf.  A short read is an
\* error that leaves the bytes that were read in front of buf and the rest
\* of buf as it was (std's default_read_exact); the reader ends at the end
\* of the file.
read_exact(f, pos, buf) ==
    LET n     == Len(buf)
        avail == Max(0, Min(n, Len(f) - pos))
    IN  [ok  |-> avail = n,
         buf |-> SubSeq(f, pos + 1, pos + avail) \o SubSeq(buf, avail + 1, n),
         pos |-> pos + avail]

\* Log::read_value: the seek's result is dropped, the read's is not
read_value(f, value_pos, value_len) ==
    LET r == read_exact(f, value_pos, Zeros(value_len))
    IN  [ok     |-> r.ok,
         val    |-> r.buf,
         cursor |-> r.pos]

(***************************************************************************)
(* Log::load_index.                                                        *)
(***************************************************************************)
\* read_one that takes a value size of 0 for a tombstone (l > 0)
read_one_PositiveOnly(f, pos, rpos, len_buf) ==
    LET r1        == read_exact(f, rpos, len_buf)
        key_len   == u32_from_be_bytes(r1.buf)
        r2        == read_exact(f, r1.pos, r1.buf)
        l         == i32_from_be_bytes(r2.buf)
        value_len == IF l > 0 THEN Some(as_u32(l)) ELSE None
        value_pos == pos + KEY_VAL_HEADER_LEN * 2 + key_len
        r3        == read_exact(f, r2.pos, Zeros(key_len))
        rend      == IF value_len # None THEN r3.pos + value_len[1] ELSE r3.pos
    IN  [key       |-> r3.buf,
         value_pos |-> value_pos,
         value_len |-> value_len,
         len_buf   |-> r2.buf,
         rpos      |-> rend,
         short     |-> ~(r1.ok /\ r2.ok /\ r3.ok)]

\* read_one that takes only the value size -1 for a tombstone
read_one_OnlyMinusOne(f, pos, rpos, len_buf) ==
    LET r1        == read_exact(f, rpos, len_buf)
        key_len   == u32_from_be_bytes(r1.buf)
        r2        == read_exact(f, r1.pos, r1.buf)
        l         == i32_from_be_bytes(r2.buf)
        value_len == IF l # -1 THEN Some(as_u32(l)) ELSE None
        value_pos == pos + KEY_VAL_HEADER_LEN * 2 + key_len
        r3        == read_exact(f, r2.pos, Zeros(key_len))
        rend      == IF value_len # None THEN r3.pos + value_len[1] ELSE r3.pos
    IN  [key       |-> r3.buf,
         value_pos |-> value_pos,
         value_len |-> value_len,
         len_buf   |-> r2.buf,
         rpos      |-> rend,
         short     |-> ~(r1.ok /\ r2.ok /\ r3.ok)]

\* the closure read_one: the three read_exact results are dropped; only the
\* seek_relative is checked, and a seek past the end of a file succeeds
read_one(f, pos, rpos, len_buf) ==
    LET r1        == read_exact(f, rpos, len_buf)
        key_len   == u32_from_be_bytes(r1.buf)
        r2        == read_exact(f, r1.pos, r1.buf)
        l         == i32_from_be_bytes(r2.buf)
        value_len == IF l >= 0 THEN Some(as_u32(l)) ELSE None
        value_pos == pos + KEY_VAL_HEADER_LEN * 2 + key_len
        r3        == read_exact(f, r2.pos, Zeros(key_len))
        rend      == IF value_len # None THEN r3.pos + value_len[1] ELSE r3.pos
    IN  [key       |-> r3.buf,
         value_pos |-> value_pos,
         value_len |-> value_len,
         len_buf   |-> r2.buf,
         rpos      |-> rend,
         short     |-> ~(r1.ok /\ r2.ok /\ r3.ok)]

\* the match with a tombstone arm that forgets to remove the key
load_match_KeepKey(st, one) ==
    [pos     |-> IF one.value_len # None
                 THEN one.value_pos + one.value_len[1] ELSE one.value_pos,
     rpos    |-> one.rpos,
     len_buf |-> one.len_buf,
     keydir  |-> IF one.value_len # None
                 THEN Insert(st.keydir, one.key,
                             <<one.value_pos, one.value_len[1]>>)
                 ELSE st.keydir,
     root    |-> st.root \/ one.value_len # None]

\* the match on read_one's result: st is the loop's state (pos, the
\* reader's position, len_buf and the directory built so far; root: the
\* BTreeMap has allocated its root node, which the first insert does and
\* no remove undoes)
load_match(st, one) ==
    IF one.value_len # None
    THEN [pos     |-> one.value_pos + one.value_len[1],
          rpos    |-> one.rpos,
          len_buf |-> one.len_buf,
          keydir  |-> Insert(st.keydir, one.key,
                             <<one.value_pos, one.value_len[1]>>),
          root    |-> TRUE]
    ELSE [pos     |-> one.value_pos,
          rpos    |-> one.rpos,
          len_buf |-> one.len_buf,
          keydir  |-> Remove(st.keydir, one.key),
          root    |-> st.root]

\* while pos < file_len.  The BufReader takes the whole (small) file with
\* its first read, so the file's cursor ends at the end of the file, or
\* past it after a seek.
RECURSIVE load_loop(_, _)
load_loop(f, st) ==
    IF st.pos < Len(f)
    THEN Bind(read_one(f, st.pos, st.rpos, st.len_buf),
              LAMBDA one : Bind(load_match(st, one),
                                LAMBDA nx : load_loop(f, nx)))
    ELSE [keydir |-> st.keydir, cursor |-> Max(st.rpos, Len(f)),
          root |-> st.root]

load_index(f) ==
    Bind(f, LAMBDA g :
        load_loop(g, [pos |-> 0, rpos |-> 0,
                      len_buf |-> Zeros(KEY_VAL_HEADER_LEN),
                      keydir |-> EmptyMap, root |-> FALSE]))

(***************************************************************************)
(* Log::write_entry.                                                       *)
(***************************************************************************)
\* an entry whose tombstone is written as a value size of 0
Entry_ZeroTombstone(key, value) ==
    to_be_bytes(as_u32(Len(key)))
        \o to_be_bytes(IF value = None THEN 0 ELSE as_i32(Len(value[1])))
        \o key \o (IF value = None THEN <<>> ELSE value[1])

\* the bytes of one entry: | key size | value size | key | value |
Entry(key, value) ==
    LET key_len                == as_u32(Len(key))
        value_len_or_tombstone == IF value = None THEN -1
                                  ELSE as_i32(Len(value[1]))
    IN  to_be_bytes(key_len) \o to_be_bytes(value_len_or_tombstone)
        \o key \o (IF value = None THEN <<>> ELSE value[1])

\* the entry's total len, in u32 arithmetic
entry_len(key, value) ==
    LET key_len   == as_u32(Len(key))
        value_len == IF value = None THEN 0 ELSE as_u32(Len(value[1]))
    IN  as_u32(KEY_VAL_HEADER_LEN * 2 + key_len + value_len)

\* write_entry without its seek to the end: the entry goes to the cursor
append_offset_Cursor(f, cursor) == cursor

\* where write_entry puts the entry: SeekFrom::End(0)
append_offset(f, cursor) == Len(f)

\* bytes written at offset off of f (a write past the end leaves a hole of 0s)
write_at(f, off, bytes) ==
    SubSeq(f, 1, Min(off, Len(f)))
        \o Zeros(Max(0, off - Len(f)))
        \o bytes
        \o SubSeq(f, off + Len(bytes) + 1, Len(f))

\* write_entry that writes where the cursor is (SeekFrom::Current(0))
write_entry_AtCursor(f, cursor, key, value, written) ==
    LET bytes  == Entry(key, value)
        n      == Min(written, Len(bytes))
    IN  [ok     |-> n = Len(bytes),
         file   |-> write_at(f, cursor, SubSeq(bytes, 1, n)),
         offset |-> cursor,
         len    |-> entry_len(key, value),
         cursor |-> cursor + n]

\* write_entry on file f through a handle at cursor; `written` is how many
\* cells reach the file before the write stops (all of them on success)
write_entry(f, cursor, key, value, written) ==
    LET bytes  == Entry(key, value)
        offset == append_offset(f, cursor)
        n      == Min(written, Len(bytes))
    IN  [ok     |-> n = Len(bytes),
         file   |-> write_at(f, offset, SubSeq(bytes, 1, n)),
         offset |-> offset,
         len    |-> entry_len(key, value),
         cursor |-> offset + n]

\* `written` of a write that succeeds
All == Modulus + 2 * KEY_VAL_HEADER_LEN

(***************************************************************************)
(* The file system: names maps a path to its inode, disk an inode to its   *)
(* bytes, locks an inode to the instance whose handle holds the advisory   *)
(* lock.  An inode lives while a name or an open handle refers to it.      *)
(***************************************************************************)
FreshIno(d) ==
    CHOOSE n \in 1..(Cardinality(DOMAIN d) + 1) :
        n \notin DOMAIN d /\ \A o \in 1..(n - 1) : o \in DOMAIN d

\* fs4's FileExt::try_lock_exclusive by a handle of `owner` on inode ino
try_lock_exclusive(lk, ino, owner) ==
    IF ino \in DOMAIN lk
    THEN [ok |-> FALSE, locks |-> lk]
    ELSE [ok |-> TRUE, locks |-> Insert(lk, ino, owner)]

\* closing a handle gives up the lock it holds
drop_handle(lk, log) ==
    IF log.locked THEN Remove(lk, log.file) ELSE lk

\* Log::new: open with read, write and create (never truncate), then try
\* the lock and go on whatever the attempt returns
log_new(nm, d, lk, p, owner) ==
    LET exists == p \in DOMAIN nm
        ino    == IF exists THEN nm[p] ELSE FreshIno(d)
        d1     == IF exists THEN d ELSE Insert(d, ino, <<>>)
        nm1    == IF exists THEN nm ELSE Insert(nm, p, ino)
        lock   == try_lock_exclusive(lk, ino, owner)
    IN  [names |-> nm1,
         disk  |-> d1,
         locks |-> lock.locks,
         log   |-> [path |-> p, file |-> ino, cursor |-> 0,
                    locked |-> lock.ok]]

\* std::fs::rename(from, to)
rename(nm, from, to) ==
    IF from = to THEN nm
    ELSE Remove(Insert(nm, to, nm[from]), from)

\* the inodes that a name or an open handle of st keeps alive
Alive(nm, st) ==
    { nm[p] : p \in DOMAIN nm }
        \cup { st[i].log.file : i \in { j \in DOMAIN st : st[j].open } }

Collect(nm, d, st) == [n \in (DOMAIN d) \cap Alive(nm, st) |-> d[n]]

(***************************************************************************)
(* MiniBitcask.                                                            *)
(***************************************************************************)
\* MiniBitcask::get on store s, whose data file holds f
get(s, f, key) ==
    IF key \in DOMAIN s.keydir
    THEN LET r == read_value(f, s.keydir[key][1], s.keydir[key][2])
         IN  IF r.ok THEN Ok(Some(r.val)) ELSE Err
    ELSE Ok(None)

\* value_entry with the key's length left out of the offset
value_entry_NoKey(offset, len, value_len) ==
    <<offset + 2 * KEY_VAL_HEADER_LEN, value_len>>

\* the directory entry that set and merge record for an entry written at
\* (offset, len) with a value of value_len bytes
value_entry(offset, len, value_len) == <<offset + len - value_len, value_len>>

\* delete that writes the tombstone and leaves the directory alone
delete_keydir_Keep(keydir, key) == keydir

\* the directory after a successful delete of key
delete_keydir(keydir, key) == Remove(keydir, key)

NoFault == [at |-> 0, written |-> All, rename |-> FALSE]

\* The loop of merge over the directory in key order.  m is the state of the
\* run: the disk, the new directory, both cursors, the entries written so
\* far, whether everything succeeded and the call that did not.  fault.at
\* names the write_entry call that stops early, after fault.written cells.

\* the second half of one turn: append the entry to the new Log and record it
merge_write(m, new, key, e, r, fault) ==
    Bind(write_entry(m.disk[new], m.new_cursor, key, Some(r.val),
                     IF fault.at = m.n + 1 THEN fault.written ELSE All),
         LAMBDA w :
            [disk       |-> [m.disk EXCEPT ![new] = w.file],
             keydir     |-> IF w.ok
                            THEN Insert(m.keydir, key,
                                        value_entry(w.offset, w.len, e[2]))
                            ELSE m.keydir,
             old_cursor |-> r.cursor,
             new_cursor |-> w.cursor,
             n          |-> m.n + 1,
             stage      |-> IF w.ok THEN "run" ELSE "write",
             ok         |-> w.ok])

\* one turn of the loop: read the value from the old Log, then write it
merge_step(m, old, new, key, e, fault) ==
    Bind(read_value(m.disk[old], e[1], e[2]),
         LAMBDA r :
            IF ~r.ok
            THEN [m EXCEPT !.ok = FALSE, !.stage = "read",
                           !.old_cursor = r.cursor]
            ELSE merge_write(m, new, key, e, r, fault))

RECURSIVE merge_loop(_, _, _, _, _, _)
merge_loop(m, old, new, keydir, keys, fault) ==
    IF keys = <<>> \/ ~m.ok THEN m
    ELSE Bind(merge_step(m, old, new, Head(keys), keydir[Head(keys)], fault),
              LAMBDA m1 : merge_loop(m1, old, new, keydir, Tail(keys), fault))

\* the path that merge opens its new Log on
merge_path(p) == set_extension(p, MERGE_FILE_EXT)

\* the end of a merge that swaps the Log in and keeps the old directory
merge_end_OldKeydir(s, L, m, fault) ==
    IF m.ok /\ ~fault.rename
    THEN [ok    |-> TRUE,
          stage |-> "done",
          n     |-> m.n,
          names |-> rename(L.names, L.log.path, s.log.path),
          disk  |-> m.disk,
          locks |-> drop_handle(L.locks, s.log),
          store |-> [open   |-> TRUE,
                     log    |-> [path   |-> s.log.path,
                                 file   |-> L.log.file,
                                 cursor |-> m.new_cursor,
                                 locked |-> L.log.locked],
                     keydir |-> s.keydir,
                     root   |-> s.root]]
    ELSE [ok    |-> FALSE,
          stage |-> IF m.ok THEN "rename" ELSE m.stage,
          n     |-> m.n,
          names |-> L.names,
          disk  |-> m.disk,
          locks |-> drop_handle(L.locks, L.log),
          store |-> [s EXCEPT !.log.cursor = m.old_cursor]]

\* the end of merge: the rename and the swap, or the early return.  L is
\* what Log::new returned and m the state the loop ended in.
merge_end(s, L, m, fault) ==
    IF m.ok /\ ~fault.rename
    THEN [ok    |-> TRUE,
          stage |-> "done",
          n     |-> m.n,
          names |-> rename(L.names, L.log.path, s.log.path),
          disk  |-> m.disk,
          locks |-> drop_handle(L.locks, s.log),
          store |-> [open   |-> TRUE,
                     log    |-> [path   |-> s.log.path,
                                 file   |-> L.log.file,
                                 cursor |-> m.new_cursor,
                                 locked |-> L.log.locked],
                     keydir |-> m.keydir,
                     root   |-> m.keydir # EmptyMap]]
    ELSE [ok    |-> FALSE,
          stage |-> IF m.ok THEN "rename" ELSE m.stage,
          n     |-> m.n,
          names |-> L.names,
          disk  |-> m.disk,
          locks |-> drop_handle(L.locks, L.log),
          store |-> [s EXCEPT !.log.cursor = m.old_cursor]]

merge_run(s, L, fault) ==
    Bind(merge_loop([disk |-> L.disk, keydir |-> EmptyMap,
                     old_cursor |-> s.log.cursor, new_cursor |-> 0,
                     n |-> 0, stage |-> "run", ok |-> TRUE],
                    s.log.file, L.log.file, s.keydir,
                    KeyOrder(DOMAIN s.keydir), fault),
         LAMBDA m : merge_end(s, L, m, fault))

\* MiniBitcask::merge on store s of instance i: the file system and the
\* store it leaves, and whether it returned Ok
merge(nm, d, lk, s, i, fault) ==
    Bind(log_new(nm, d, lk, merge_path(s.log.path), i),
         LAMBDA L : merge_run(s, L, fault))

\* MiniBitcask::new for instance i on path p
bitcask_new(nm, d, lk, p, i) ==
    Bind(log_new(nm, d, lk, p, i), LAMBDA L :
        Bind(load_index(L.disk[L.log.file]), LAMBDA idx :
            [names |-> L.names,
             disk  |-> L.disk,
             locks |-> L.locks,
             store |-> [open   |-> TRUE,
                        log    |-> [L.log EXCEPT !.cursor = idx.cursor],
                        keydir |-> idx.keydir,
                        root   |-> idx.root]]))

\* MiniBitcask::set on store s whose file holds f
set(s, f, key, value, written) ==
    Bind(write_entry(f, s.log.cursor, key, Some(value), written), LAMBDA w :
        [ok    |-> w.ok,
         file  |-> w.file,
         store |-> IF w.ok
                   THEN [s EXCEPT !.log.cursor = w.cursor,
                                  !.keydir = Insert(s.keydir, key,
                                      value_entry(w.offset, w.len,
                                                  as_u32(Len(value)))),
                                  !.root = TRUE]
                   ELSE [s EXCEPT !.log.cursor = w.cursor]])

\* MiniBitcask::delete on store s whose file holds f
delete(s, f, key, written) ==
    Bind(write_entry(f, s.log.cursor, key, None, written), LAMBDA w :
        [ok    |-> w.ok,
         file  |-> w.file,
         store |-> IF w.ok
                   THEN [s EXCEPT !.log.cursor = w.cursor,
                                  !.keydir = delete_keydir(s.keydir, key)]
                   ELSE [s EXCEPT !.log.cursor = w.cursor]])

(***************************************************************************)
(* Scans.                                                                  *)
(***************************************************************************)
\* std::ops::Bound
Included(k) == [kind |-> "Included", key |-> k]

Excluded(k) == [kind |-> "Excluded", key |-> k]

Unbounded == [kind |-> "Unbounded", key |-> <<>>]

\* key k is not below the start bound / not above the end bound
AfterStart(k, start) ==
    CASE start.kind = "Included" -> k = start.key \/ LexLess(start.key, k)
      [] start.kind = "Excluded" -> LexLess(start.key, k)
      [] OTHER -> TRUE

BeforeEnd(k, end) ==
    CASE end.kind = "Included" -> k = end.key \/ LexLess(k, end.key)
      [] end.kind = "Excluded" -> LexLess(k, end.key)
      [] OTHER -> TRUE

\* BTreeMap::range: a map that never allocated its root gives the empty
\* range; otherwise the search panics on a start above the end and on equal
\* excluded bounds, before it looks at any key
range(keydir, root, start, end) ==
    IF ~root THEN [panic |-> FALSE, keys |-> <<>>]
    ELSE IF /\ start.kind # "Unbounded"
            /\ end.kind # "Unbounded"
            /\ \/ LexLess(end.key, start.key)
               \/ /\ start.key = end.key
                  /\ start.kind = "Excluded"
                  /\ end.kind = "Excluded"
    THEN [panic |-> TRUE, keys |-> <<>>]
    ELSE [panic |-> FALSE,
          keys  |-> KeyOrder({ k \in DOMAIN keydir :
                                 AfterStart(k, start) /\ BeforeEnd(k, end) })]

Reverse(q) == [n \in 1..Len(q) |-> q[Len(q) + 1 - n]]

\* ScanIterator::map on the directory entry of key: one item and the
\* cursor read_value leaves
scan_map(f, keydir, key) ==
    Bind(read_value(f, keydir[key][1], keydir[key][2]), LAMBDA r :
        [item   |-> IF r.ok THEN Ok(<<key, r.val>>) ELSE Err,
         cursor |-> r.cursor])

\* the iterator driven to its end with next (or next_back, over keys in
\* reverse): the items it yields and the cursor of the Log afterwards
RECURSIVE scan_drain(_, _, _, _, _)
scan_drain(f, keydir, keys, cursor, items) ==
    IF keys = <<>> THEN [items |-> items, cursor |-> cursor]
    ELSE Bind(scan_map(f, keydir, Head(keys)), LAMBDA one :
            scan_drain(f, keydir, Tail(keys), one.cursor,
                       Append(items, one.item)))

\* MiniBitcask::scan(range) and the iteration of what it returns
scan(s, f, start, end, rev) ==
    Bind(range(s.keydir, s.root, start, end), LAMBDA r :
        IF r.panic THEN [panic |-> TRUE, items |-> <<>>,
                         cursor |-> s.log.cursor]
        ELSE Bind(scan_drain(f, s.keydir,
                             IF rev THEN Reverse(r.keys) ELSE r.keys,
                             s.log.cursor, <<>>),
                  LAMBDA d : [panic |-> FALSE, items |-> d.items,
                              cursor |-> d.cursor]))

\* `*last += 1` on a u8: with overflow checks the addition panics at the
\* largest byte, without them it wraps to 0
u8_add_one(b, overflow_checks) ==
    [panic |-> overflow_checks /\ b = ByteBase - 1,
     val   |-> (b + 1) % ByteBase]

\* the end bound of scan_prefix: the prefix with its last byte plus one
bound_prefix(prefix, overflow_checks) ==
    IF prefix = <<>> THEN [panic |-> FALSE, key |-> <<>>]
    ELSE Bind(u8_add_one(prefix[Len(prefix)], overflow_checks), LAMBDA a :
            [panic |-> a.panic,
             key   |-> [prefix EXCEPT ![Len(prefix)] = a.val]])

\* MiniBitcask::scan_prefix(prefix) and the forward iteration of its result
scan_prefix(s, f, prefix, overflow_checks) ==
    Bind(bound_prefix(prefix, overflow_checks), LAMBDA e :
        IF e.panic THEN [panic |-> TRUE, items |-> <<>>,
                         cursor |-> s.log.cursor]
        ELSE scan(s, f, Included(prefix), Excluded(e.key), FALSE))

\* ScanIterator::map where the read of read_value returns an I/O error
\* after the seek to value_pos
scan_map_err(keydir, key) == [item |-> Err, cursor |-> keydir[key][1]]

\* an iterator that yields nothing more once an item was an error
RECURSIVE scan_calls_StopOnErr(_, _, _, _, _, _, _)
scan_calls_StopOnErr(f, keydir, keys, cursor, items, calls, io_fails) ==
    IF calls = <<>> THEN [items |-> items, cursor |-> cursor]
    ELSE IF keys = <<>>
    THEN scan_calls_StopOnErr(f, keydir, keys, cursor, Append(items, None),
                              Tail(calls), io_fails)
    ELSE LET front == Head(calls) = "next"
             key   == IF front THEN Head(keys) ELSE keys[Len(keys)]
             rest  == IF front THEN Tail(keys)
                      ELSE SubSeq(keys, 1, Len(keys) - 1)
         IN  Bind(IF Len(items) + 1 \in io_fails
                  THEN scan_map_err(keydir, key)
                  ELSE scan_map(f, keydir, key),
                  LAMBDA one :
                    scan_calls_StopOnErr(f, keydir,
                               IF one.item = Err THEN <<>> ELSE rest,
                               one.cursor, Append(items, Some(one.item)),
                               Tail(calls), io_fails))

\* the iterator driven by a sequence of calls, each "next" or "next_back":
\* a call takes the first or the last key left in the range and yields
\* Some(map of it), or None when no key is left; the items of the calls
\* and the cursor of the Log afterwards.  io_fails: the calls whose read
\* returns an I/O error.
RECURSIVE scan_calls(_, _, _, _, _, _, _)
scan_calls(f, keydir, keys, cursor, items, calls, io_fails) ==
    IF calls = <<>> THEN [items |-> items, cursor |-> cursor]
    ELSE IF keys = <<>>
    THEN scan_calls(f, keydir, keys, cursor, Append(items, None),
                    Tail(calls), io_fails)
    ELSE LET front == Head(calls) = "next"
             key   == IF front THEN Head(keys) ELSE keys[Len(keys)]
             rest  == IF front THEN Tail(keys)
                      ELSE SubSeq(keys, 1, Len(keys) - 1)
         IN  Bind(IF Len(items) + 1 \in io_fails
                  THEN scan_map_err(keydir, key)
                  ELSE scan_map(f, keydir, key),
                  LAMBDA one :
                    scan_calls(f, keydir, rest, one.cursor,
                               Append(items, Some(one.item)),
                               Tail(calls), io_fails))

\* MiniBitcask::scan(range) and some calls on the iterator it returns;
\* keys: the keys of the iterator's range
scan_iter(s, f, start, end, calls, io_fails) ==
    Bind(range(s.keydir, s.root, start, end), LAMBDA r :
        IF r.panic THEN [panic |-> TRUE, items |-> <<>>, keys |-> <<>>,
                         cursor |-> s.log.cursor]
        ELSE Bind(scan_calls(f, s.keydir, r.keys, s.log.cursor, <<>>,
                             calls, io_fails),
                  LAMBDA d : [panic |-> FALSE, items |-> d.items,
                              keys |-> r.keys, cursor |-> d.cursor]))

\* MiniBitcask::scan_prefix(prefix) and some calls on its iterator
scan_prefix_iter(s, f, prefix, overflow_checks, calls, io_fails) ==
    Bind(bound_prefix(prefix, overflow_checks), LAMBDA e :
        IF e.panic THEN [panic |-> TRUE, items |-> <<>>, keys |-> <<>>,
                         cursor |-> s.log.cursor]
        ELSE scan_iter(s, f, Included(prefix), Excluded(e.key),
                       calls, io_fails))

(***************************************************************************)
(* The state machine.  kv is what the callers did to each key with their   *)
(* successful calls: never set, set to a value, or deleted after a set.    *)
(* last is the operation that led here; for a drop and a merge its val is  *)
(* what get returned for every key of the directory just before.  faults   *)
(* counts the writes that failed or were cut by a kill.  dirty holds the   *)
(* inodes with bytes that were written and not yet synced to the device.   *)
(***************************************************************************)
\* the bytes of the file that the Log of instance i has open
File(i) == disk[stores[i].log.file]

Op(op, i, key, val, ok, died) ==
    [op |-> op, inst |-> i, key |-> key, val |-> val, ok |-> ok,
     died |-> died, moved |-> FALSE]

\* the cursor of the Log of instance i is not at the end of its file
Moved(i) == stores[i].log.cursor # Len(File(i))

\* the dirty inodes after a step from disk d to disk d1 that syncs nothing:
\* those that were dirty and those whose bytes changed
Dirtied(dy, d, d1) ==
    { n \in DOMAIN d1 :
        IF n \in DOMAIN d THEN n \in dy \/ d1[n] # d[n] ELSE d1[n] # <<>> }

\* a flush that returns Ok without a sync
flush_NoSync(s, dy, sync_fails) == [ok |-> ~sync_fails, dirty |-> dy]

\* MiniBitcask::flush: sync_all on the file of the Log; sync_fails: the
\* system call returns an error and nothing is known to have reached the
\* device
flush(s, dy, sync_fails) ==
    IF sync_fails THEN [ok |-> FALSE, dirty |-> dy]
    ELSE [ok |-> TRUE, dirty |-> dy \ {s.log.file}]

NeverSet == [st |-> "never", val |-> <<>>]

WasSet(v) == [st |-> "set", val |-> v]

Deleted == [st |-> "deleted", val |-> <<>>]

\* what get returns for every key of the directory of instance i
DirView(i) ==
    [k \in DOMAIN stores[i].keydir |-> get(stores[i], File(i), k)]

Init ==
    /\ path \in Paths
    /\ names = EmptyMap
    /\ disk = EmptyMap
    /\ locks = EmptyMap
    /\ stores = [i \in Instances |-> Closed]
    /\ kv = [k \in AllKeys |-> NeverSet]
    /\ last = Op("init", 0, <<>>, None, TRUE, FALSE)
    /\ faults = 0
    /\ dirty = {}

\* MiniBitcask::new(path)
Open(i) ==
    /\ ~stores[i].open
    /\ \E r \in {bitcask_new(names, disk, locks, path, i)} :
           /\ names' = r.names
           /\ disk' = r.disk
           /\ locks' = r.locks
           /\ stores' = [stores EXCEPT ![i] = r.store]
    /\ last' = Op("open", i, <<>>, None, TRUE, FALSE)
    /\ dirty' = Dirtied(dirty, disk, disk')
    /\ UNCHANGED <<path, kv, faults>>

\* the store of instance i goes away and its handle is closed
Gone(i) ==
    \E st \in {[stores EXCEPT ![i] = Closed]} :
        /\ stores' = st
        /\ locks' = drop_handle(locks, stores[i].log)
        /\ disk' = Collect(names, disk, st)

\* Drop for MiniBitcask: flush (sync_all), whose error is logged and goes
\* nowhere, then the Log is dropped.  last.ok tells whether the sync worked.
Drop(i, sync_fails) ==
    /\ stores[i].open
    /\ Gone(i)
    /\ \E r \in {flush(stores[i], dirty, sync_fails)} :
           /\ dirty' = Dirtied(r.dirty, disk, disk')
           /\ last' = Op("drop", i, <<>>, DirView(i), r.ok, FALSE)
    /\ UNCHANGED <<path, names, kv, faults>>

Close(i) == Drop(i, FALSE)

\* a drop whose sync_all returns an error
CloseSyncFault(i) == Drop(i, TRUE)

\* the process of instance i is killed between two operations
Crash(i) ==
    /\ stores[i].open
    /\ Gone(i)
    /\ last' = Op("crash", i, <<>>, None, TRUE, TRUE)
    /\ dirty' = Dirtied(dirty, disk, disk')
    /\ UNCHANGED <<path, names, kv, faults>>

\* get(key): only the cursor of the handle moves
Get(i, key) ==
    /\ stores[i].open
    /\ LET s == stores[i]
       IN  IF key \in DOMAIN s.keydir
           THEN stores' = [stores EXCEPT ![i].log.cursor =
                    read_value(File(i), s.keydir[key][1], s.keydir[key][2]).cursor]
           ELSE stores' = stores
    /\ last' = Op("get", i, key, None, get(stores[i], File(i), key).ok, FALSE)
    /\ UNCHANGED <<path, names, disk, locks, kv, faults, dirty>>

\* set(key, value) returns Ok, on a file that stays within max cells
SetWithin(i, key, value, max) ==
    /\ stores[i].open
    /\ Len(File(i)) + Len(Entry(key, Some(value))) <= max
    /\ \E r \in {set(stores[i], File(i), key, value, All)} :
           /\ r.ok
           /\ disk' = [disk EXCEPT ![stores[i].log.file] = r.file]
           /\ stores' = [stores EXCEPT ![i] = r.store]
    /\ kv' = [kv EXCEPT ![key] = WasSet(value)]
    /\ last' = [Op("set", i, key, Some(value), TRUE, FALSE)
                    EXCEPT !.moved = Moved(i)]
    /\ dirty' = Dirtied(dirty, disk, disk')
    /\ UNCHANGED <<path, names, locks, faults>>

\* set(key, value) returns Ok
Set(i, key, value) == SetWithin(i, key, value, MaxFileLen)

\* delete(key) returns Ok
Delete(i, key) ==
    /\ stores[i].open
    /\ Len(File(i)) + Len(Entry(key, None)) <= MaxFileLen
    /\ \E r \in {delete(stores[i], File(i), key, All)} :
           /\ r.ok
           /\ disk' = [disk EXCEPT ![stores[i].log.file] = r.file]
           /\ stores' = [stores EXCEPT ![i] = r.store]
    /\ kv' = [kv EXCEPT ![key] = IF kv[key] = NeverSet THEN NeverSet
                                   ELSE Deleted]
    /\ last' = [Op("delete", i, key, None, TRUE, FALSE)
                    EXCEPT !.moved = Moved(i)]
    /\ dirty' = Dirtied(dirty, disk, disk')
    /\ UNCHANGED <<path, names, locks, faults>>

\* the effect of a merge run r of instance i; died: the process was killed
\* at the point where the run ended
MergeEffect(i, r, died) ==
    \E st \in {[stores EXCEPT ![i] = IF died THEN Closed ELSE r.store]} :
        /\ \A n \in DOMAIN r.disk : Len(r.disk[n]) <= MaxFileLen
        /\ names' = r.names
        /\ stores' = st
        /\ locks' = IF died THEN drop_handle(r.locks, r.store.log) ELSE r.locks
        /\ disk' = Collect(r.names, r.disk, st)
        /\ last' = Op("merge", i, <<>>, DirView(i), r.ok, died)
        /\ dirty' = Dirtied(Dirtied(dirty, disk, r.disk), r.disk, disk')
        /\ UNCHANGED <<path, kv>>

\* merge() with no failure of the file system
Merge(i) ==
    /\ stores[i].open
    /\ \E r \in {merge(names, disk, locks, stores[i], i, NoFault)} :
           MergeEffect(i, r, FALSE)
    /\ UNCHANGED faults

\* set(key, value) fails after `written` cells of the entry reached the
\* file; died: the process was killed there instead of getting the error
SetFault(i, key, value, written, died) ==
    /\ stores[i].open
    /\ faults < MaxFaults
    /\ Len(File(i)) + Len(Entry(key, Some(value))) <= MaxFileLen
    /\ written < Len(Entry(key, Some(value)))
    /\ \E r \in {set(stores[i], File(i), key, value, written)} :
         \E st \in {[stores EXCEPT ![i] = IF died THEN Closed ELSE r.store]} :
           /\ disk' = Collect(names,
                              [disk EXCEPT ![stores[i].log.file] = r.file], st)
           /\ stores' = st
           /\ locks' = IF died THEN drop_handle(locks, stores[i].log) ELSE locks
    /\ last' = Op("set", i, key, Some(value), FALSE, died)
    /\ dirty' = Dirtied(dirty, disk, disk')
    /\ faults' = faults + 1
    /\ UNCHANGED <<path, names, kv>>

\* delete(key) fails after `written` cells of the tombstone reached the file
DeleteFault(i, key, written, died) ==
    /\ stores[i].open
    /\ faults < MaxFaults
    /\ Len(File(i)) + Len(Entry(key, None)) <= MaxFileLen
    /\ written < Len(Entry(key, None))
    /\ \E r \in {delete(stores[i], File(i), key, written)} :
         \E st \in {[stores EXCEPT ![i] = IF died THEN Closed ELSE r.store]} :
           /\ disk' = Collect(names,
                              [disk EXCEPT ![stores[i].log.file] = r.file], st)
           /\ stores' = st
           /\ locks' = IF died THEN drop_handle(locks, stores[i].log) ELSE locks
    /\ last' = Op("delete", i, key, None, FALSE, died)
    /\ dirty' = Dirtied(dirty, disk, disk')
    /\ faults' = faults + 1
    /\ UNCHANGED <<path, names, kv>>

\* merge() whose at-th write_entry stops after `written` cells
MergeWriteFault(i, at, written, died) ==
    /\ stores[i].open
    /\ faults < MaxFaults
    /\ faults' = faults + 1
    /\ \E r \in {merge(names, disk, locks, stores[i], i,
                        [at |-> at, written |-> written, rename |-> FALSE])} :
           /\ r.stage = "write"
           /\ MergeEffect(i, r, died)

\* merge() whose rename fails, or that is killed just before the rename
MergeRenameFault(i, died) ==
    /\ stores[i].open
    /\ faults < MaxFaults
    /\ faults' = faults + 1
    /\ \E r \in {merge(names, disk, locks, stores[i], i,
                        [at |-> 0, written |-> All, rename |-> TRUE])} :
           /\ r.stage = "rename"
           /\ MergeEffect(i, r, died)

\* merge() killed right after the rename
MergeCrashAfterRename(i) ==
    /\ stores[i].open
    /\ \E r \in {merge(names, disk, locks, stores[i], i, NoFault)} :
           /\ r.stage = "done"
           /\ MergeEffect(i, r, TRUE)
    /\ UNCHANGED faults

\* the effect of a scan whose result is r: a panic ends the process (with
\* the drop of the store when the build unwinds, without it when the build
\* aborts), an iteration moves the cursor of the Log
ScanEffect(i, op, arg, r) ==
    /\ IF r.panic
       THEN /\ Gone(i)
            /\ last' = Op(op, i, arg, <<>>, FALSE, TRUE)
            /\ \E unwind \in BOOLEAN :
                  dirty' = Dirtied(flush(stores[i], dirty, ~unwind).dirty,
                                   disk, disk')
       ELSE /\ stores' = [stores EXCEPT ![i].log.cursor = r.cursor]
            /\ last' = Op(op, i, arg, r.items, TRUE, FALSE)
            /\ UNCHANGED <<disk, locks, dirty>>
    /\ UNCHANGED <<path, names, kv, faults>>

\* scan((start, end)) iterated to its end, forward or in reverse
Scan(i, start, end, rev) ==
    /\ stores[i].open
    /\ \E r \in {scan(stores[i], File(i), start, end, rev)} :
           ScanEffect(i, "scan", <<start, end, rev>>, r)

\* scan_prefix(prefix) iterated forward to its end, in a build with or
\* without overflow checks
ScanPrefix(i, prefix, overflow_checks) ==
    /\ stores[i].open
    /\ \E r \in {scan_prefix(stores[i], File(i), prefix, overflow_checks)} :
           ScanEffect(i, "scan_prefix", prefix, r)

\* scan((start, end)) and calls on its iterator; last.key holds the keys
\* of the iterator's range, the calls and the calls that fail
Iterate(i, start, end, calls, io_fails) ==
    /\ stores[i].open
    /\ \E r \in {scan_iter(stores[i], File(i), start, end, calls, io_fails)} :
           ScanEffect(i, "iter", <<r.keys, calls, io_fails>>, r)

\* scan_prefix(prefix) and calls on its iterator
IteratePrefix(i, prefix, overflow_checks, calls, io_fails) ==
    /\ stores[i].open
    /\ \E r \in {scan_prefix_iter(stores[i], File(i), prefix, overflow_checks,
                                  calls, io_fails)} :
           ScanEffect(i, "iter_prefix", <<r.keys, calls, io_fails>>, r)

\* the ranges that are scanned: [a, b) and the full range
Ranges ==
    { <<Included(a), Excluded(b)>> : a \in ScanKeys, b \in ScanKeys }
        \cup { <<Unbounded, Unbounded>> }

\* where a write of an entry may stop: before it, inside the key size,
\* inside the value size, right after the header, inside the key or value
Cuts == { 0, KEY_VAL_HEADER_LEN \div 2,
          KEY_VAL_HEADER_LEN + KEY_VAL_HEADER_LEN \div 2,
          2 * KEY_VAL_HEADER_LEN, 2 * KEY_VAL_HEADER_LEN + 1 }

(***************************************************************************)
(* Specifications.  Spec: one store instance and a file system that never  *)
(* fails.  SpecFault adds failed and killed operations.  SpecLock lets a   *)
(* second instance open, write and close on the same path.  SpecScan adds  *)
(* scans on a store of ScanKeys.  SpecSync adds drops whose sync fails.    *)
(***************************************************************************)
Next ==
    \/ Open(1)
    \/ Close(1)
    \/ \E k \in Keys : Get(1, k)
    \/ \E k \in Keys, v \in Values : Set(1, k, v)
    \/ \E k \in Keys : Delete(1, k)
    \/ Merge(1)

Spec == Init /\ [][Next]_vars

NextFault ==
    \/ Open(1)
    \/ Close(1)
    \/ Crash(1)
    \/ \E k \in Keys, v \in Values : Set(1, k, v)
    \/ \E k \in Keys : Delete(1, k)
    \/ Merge(1)
    \/ \E k \in Keys, v \in Values, w \in Cuts, d \in BOOLEAN :
          SetFault(1, k, v, w, d)
    \/ \E k \in Keys, w \in Cuts, d \in BOOLEAN :
          DeleteFault(1, k, w, d)
    \/ \E at \in 1..Cardinality(Keys), w \in Cuts, d \in BOOLEAN :
          MergeWriteFault(1, at, w, d)
    \/ \E d \in BOOLEAN : MergeRenameFault(1, d)
    \/ MergeCrashAfterRename(1)

SpecFault == Init /\ [][NextFault]_vars

NextLock ==
    \E i \in Instances :
        \/ Open(i)
        \/ Close(i)
        \/ \E k \in Keys, v \in Values : Set(i, k, v)
        \/ \E k \in Keys : Delete(i, k)

SpecLock == Init /\ [][NextLock]_vars

\* one instance, with drops whose sync fails
NextSync ==
    \/ Open(1)
    \/ Close(1)
    \/ CloseSyncFault(1)
    \/ \E k \in Keys, v \in Values : Set(1, k, v)
    \/ \E k \in Keys : Delete(1, k)
    \/ Merge(1)

SpecSync == Init /\ [][NextSync]_vars

\* one instance on a store of ScanKeys at the path "log", with gets and
\* scans between writes
InitScan == Init /\ path = <<"log">>

NextScan ==
    \/ Open(1)
    \/ Close(1)
    \/ \E k \in ScanKeys : Get(1, k)
    \/ \E k \in ScanKeys, v \in Values : Set(1, k, v)
    \/ \E k \in ScanKeys : Delete(1, k)
    \/ \E r \in Ranges, rev \in BOOLEAN : Scan(1, r[1], r[2], rev)
    \/ \E p \in Prefixes, c \in BOOLEAN : ScanPrefix(1, p, c)

SpecScan == InitScan /\ [][NextScan]_vars

\* SpecIter: iterators that are called a few times, forward and backward,
\* with reads that fail
IterRanges ==
    { <<Unbounded, Unbounded>>, <<Included(<<1>>), Excluded(<<2>>)>> }

IterPrefixes == {<<>>, <<1>>}

IterCalls ==
    { <<"next">>, <<"next", "next", "next">>,
      <<"next_back", "next_back">>, <<"next", "next_back", "next">> }

IoFails == { {}, {1}, {2} }

NextIter ==
    \/ Open(1)
    \/ \E k \in ScanKeys, v \in Values : Set(1, k, v)
    \/ \E r \in IterRanges, c \in IterCalls, e \in IoFails :
          Iterate(1, r[1], r[2], c, e)
    \/ \E p \in IterPrefixes, o \in BOOLEAN, c \in IterCalls, e \in IoFails :
          IteratePrefix(1, p, o, c, e)

SpecIter == InitScan /\ [][NextIter]_vars

(***************************************************************************)
(* Values as long as the value size field is wide: the shortest value      *)
(* whose length has the top bit of the field set, stored in a file of up   *)
(* to MaxWideLen cells.                                                    *)
(***************************************************************************)
WideValue == [n \in 1..((Modulus + 1) \div 2) |-> 1]

WideValues == {<<>>, WideValue}

MaxWideLen == Modulus

SetWide(i, key, value) == SetWithin(i, key, value, MaxWideLen)

NextWide ==
    \/ Open(1)
    \/ Close(1)
    \/ \E k \in Keys : Get(1, k)
    \/ \E k \in Keys, v \in WideValues : SetWide(1, k, v)

SpecWide == InitScan /\ [][NextWide]_vars

(***************************************************************************)
(* Stores opened on a log file that is already there: a value record, a    *)
(* record with a negative value size and a last record, each of them       *)
(* optional, the last one possibly cut short as a killed set leaves it.    *)
(***************************************************************************)
\* the value sizes that read as negative: -1, -2 and the least i32
NegFields == {-1, -2, -(Modulus \div 2)}

\* a record of key with the value size field `field` and no value bytes
Tombstone(key, field) ==
    to_be_bytes(as_u32(Len(key))) \o to_be_bytes(field) \o key

LoadHeads ==
    {<<>>} \cup { Entry(k, Some(v)) : k \in Keys, v \in Values }

LoadTombstones ==
    {<<>>} \cup { Tombstone(k, n) : k \in Keys, n \in NegFields }

\* the last record: none, whole, or without its value bytes
LoadTails ==
    LoadHeads
        \cup { SubSeq(Entry(k, Some(v)), 1, 2 * KEY_VAL_HEADER_LEN + Len(k)) :
                  k \in Keys \ {<<>>}, v \in Values \ {<<>>} }

LoadFiles ==
    { h \o t \o e : h \in LoadHeads, t \in LoadTombstones, e \in LoadTails }

InitLoad ==
    /\ path = <<"log">>
    /\ names = Insert(EmptyMap, path, 1)
    /\ \E f \in LoadFiles : disk = Insert(EmptyMap, 1, f)
    /\ locks = EmptyMap
    /\ stores = [i \in Instances |-> Closed]
    /\ kv = [k \in AllKeys |-> NeverSet]
    /\ last = Op("init", 0, <<>>, None, TRUE, FALSE)
    /\ faults = 0
    /\ dirty = {}

NextLoad ==
    \/ Open(1)
    \/ Close(1)
    \/ \E k \in Keys : Get(1, k)
    \/ \E k \in Keys, v \in Values : Set(1, k, v)
    \/ \E k \in Keys, v \in Values, w \in Cuts : SetFault(1, k, v, w, FALSE)
    \/ \E k \in Keys, w \in Cuts : DeleteFault(1, k, w, FALSE)

SpecLoad == InitLoad /\ [][NextLoad]_vars

(***************************************************************************)
(* The record format of the log, for stating the properties: the complete  *)
(* records of file f from offset pos on, each with its key, whether it is  *)
(* a tombstone, its value bytes and their offset.                          *)
(***************************************************************************)
RECURSIVE Records(_, _)
Records(f, pos) ==
    IF pos + 2 * KEY_VAL_HEADER_LEN > Len(f) THEN <<>>
    ELSE
      LET kl   == Undigits(SubSeq(f, pos + 1, pos + KEY_VAL_HEADER_LEN))
          vl   == as_i32(Undigits(SubSeq(f, pos + KEY_VAL_HEADER_LEN + 1,
                                         pos + 2 * KEY_VAL_HEADER_LEN)))
          voff == pos + 2 * KEY_VAL_HEADER_LEN + kl
          end  == IF vl < 0 THEN voff ELSE voff + vl
      IN  IF end > Len(f) THEN <<>>
          ELSE <<[key    |-> SubSeq(f, pos + 2 * KEY_VAL_HEADER_LEN + 1, voff),
                  tomb   |-> vl < 0,
                  value  |-> SubSeq(f, voff + 1, end),
                  offset |-> voff]>> \o Records(f, end)

\* the indexes of the records of key k in recs
RecordsOf(recs, k) == { n \in 1..Len(recs) : recs[n].key = k }

\* the indexes of the non-tombstone records of key k in recs
ValuesOf(recs, k) == { n \in RecordsOf(recs, k) : ~recs[n].tomb }

Latest(S) == CHOOSE n \in S : \A o \in S : o <= n

\* the bytes of file f at (offset, len)
Bytes(f, offset, len) == SubSeq(f, offset + 1, offset + len)

(***************************************************************************)
(* C1.  For every key of the key directory, the bytes of the log file at   *)
(* (value_offset, value_len) are the value of the latest non-tombstone     *)
(* record of that key.                                                     *)
(***************************************************************************)
C1_DirectoryPointsAtLatestValue ==
    stores[1].open =>
        LET recs == Records(File(1), 0)
        IN  \A k \in DOMAIN stores[1].keydir :
                LET e == stores[1].keydir[k]
                IN  /\ ValuesOf(recs, k) # {}
                    /\ e[1] + e[2] <= Len(File(1))
                    /\ Bytes(File(1), e[1], e[2])
                           = recs[Latest(ValuesOf(recs, k))].value

\* a key of the directory with two value records that differ, after a set
C1_Witness ==
    /\ stores[1].open
    /\ last.op = "set"
    /\ LET recs == Records(File(1), 0)
       IN  \E k \in DOMAIN stores[1].keydir :
               /\ k # <<>>
               /\ \E a, b \in ValuesOf(recs, k) : recs[a].value # recs[b].value

(***************************************************************************)
(* C2.  A key is absent from the key directory iff the log holds no record *)
(* for it or its latest record is a tombstone; get of a key without a      *)
(* record returns None.                                                    *)
(***************************************************************************)
C2_AbsentIffNoRecordOrTombstone ==
    stores[1].open =>
        LET recs == Records(File(1), 0)
            all  == Keys \cup DOMAIN stores[1].keydir
                         \cup { recs[n].key : n \in 1..Len(recs) }
        IN  \A k \in all :
                /\ (k \notin DOMAIN stores[1].keydir)
                       <=> (\/ RecordsOf(recs, k) = {}
                            \/ recs[Latest(RecordsOf(recs, k))].tomb)
                /\ RecordsOf(recs, k) = {}
                       => get(stores[1], File(1), k) = Ok(None)

\* a store opened on a log in which one key ends with a tombstone after a
\* value record, another key has a value and a third has no record
C2_Witness ==
    /\ stores[1].open
    /\ last.op = "open"
    /\ LET recs == Records(File(1), 0)
       IN  /\ \E k \in Keys :
                 /\ ValuesOf(recs, k) # {}
                 /\ recs[Latest(RecordsOf(recs, k))].tomb
                 /\ k \notin DOMAIN stores[1].keydir
           /\ \E k \in Keys : k \in DOMAIN stores[1].keydir

(***************************************************************************)
(* C3.  Once set(K, V) has succeeded, get(K) returns Some(V) for the       *)
(* latest such V, until K is set again or deleted.                         *)
(***************************************************************************)
C3_GetReturnsLatestSet ==
    stores[1].open =>
        \A k \in Keys :
            kv[k].st = "set"
                => get(stores[1], File(1), k) = Ok(Some(kv[k].val))

\* right after a set that overwrote a different value of the same key
C3_Witness ==
    /\ stores[1].open
    /\ last.op = "set"
    /\ get(stores[1], File(1), last.key) = Ok(last.val)
    /\ LET recs == Records(File(1), 0)
       IN  \E a \in ValuesOf(recs, last.key) : Some(recs[a].value) # last.val

(***************************************************************************)
(* C4.  After set(K, V) and delete(K), get(K) returns None, and keeps      *)
(* doing so through gets and merges until K is set again.                  *)
(***************************************************************************)
C4_GetAfterDeleteIsNone ==
    stores[1].open =>
        \A k \in Keys :
            kv[k] = Deleted => get(stores[1], File(1), k) = Ok(None)

\* a deleted key after a merge that ran while another key was live
C4_Witness ==
    /\ stores[1].open
    /\ last.op = "merge"
    /\ last.ok
    /\ \E k \in Keys : kv[k] = Deleted
    /\ \E k \in Keys : kv[k].st = "set"

(***************************************************************************)
(* C5.  Closing the store and opening it again on the same path gives a    *)
(* directory with the same keys and the same values as before the close.   *)
(***************************************************************************)
C5_ReopenRoundTrip ==
    [][(last.op = "drop" /\ last'.op = "open") => DirView(1)' = last.val]_vars

\* reopened with a live key, and a key whose last operation was a delete
C5_Witness ==
    /\ stores[1].open
    /\ last.op = "open"
    /\ \E k \in Keys : kv[k] = Deleted /\ k \notin DOMAIN stores[1].keydir
    /\ \E k \in Keys : kv[k].st = "set" /\ k \in DOMAIN stores[1].keydir

(***************************************************************************)
(* C6.  A successful merge leaves the result of get unchanged for every    *)
(* key, and a set or delete issued next behaves as on a store holding the  *)
(* live entries.                                                           *)
(***************************************************************************)
\* on store s with file f: set(k, v) makes get(k) Some(v), delete(k) makes
\* it None, and neither changes get of another key
OpsBehave(s, f) ==
    \A k \in Keys :
        /\ \A v \in Values :
              LET r == set(s, f, k, v, All)
              IN  /\ r.ok
                  /\ get(r.store, r.file, k) = Ok(Some(v))
                  /\ \A o \in Keys \ {k} :
                        get(r.store, r.file, o) = get(s, f, o)
        /\ LET r == delete(s, f, k, All)
           IN  /\ r.ok
               /\ get(r.store, r.file, k) = Ok(None)
               /\ \A o \in Keys \ {k} : get(r.store, r.file, o) = get(s, f, o)

C6_MergeKeepsGets ==
    (stores[1].open /\ last.op = "merge" /\ last.ok)
        => /\ DirView(1) = last.val
           /\ OpsBehave(stores[1], File(1))

\* after a merge of a store with a live and a deleted key
C6_Witness ==
    /\ stores[1].open
    /\ last.op = "merge"
    /\ last.ok
    /\ \E k \in Keys : kv[k] = Deleted /\ get(stores[1], File(1), k) = Ok(None)
    /\ \E k \in Keys : kv[k].st = "set" /\ kv[k].val # <<>>

(***************************************************************************)
(* C7.  Right after a successful merge the size of the data file is the    *)
(* sum over the live keys K with value V of 8 + |K| + |V|.                 *)
(***************************************************************************)
RECURSIVE LiveSize(_, _)
LiveSize(keydir, S) ==
    IF S = {} THEN 0
    ELSE LET k == CHOOSE x \in S : TRUE
         IN  2 * KEY_VAL_HEADER_LEN + Len(k) + keydir[k][2]
                 + LiveSize(keydir, S \ {k})

C7_MergedFileSize ==
    (stores[1].open /\ last.op = "merge" /\ last.ok /\ ~last.died)
        => Len(disk[names[path]])
               = LiveSize(stores[1].keydir, DOMAIN stores[1].keydir)

(***************************************************************************)
(* C8.  A merge that is killed at any point leaves a data path that        *)
(* reopens to the key-to-value mapping of before the merge.                *)
(***************************************************************************)
C8_MergeCrashAtomic ==
    [][(last.op = "merge" /\ last.died /\ last'.op = "open")
          => DirView(1)' = last.val]_vars

(***************************************************************************)
(* C9.  While one store is open on a log file, a second open of the same   *)
(* file does not give a second store.                                      *)
(***************************************************************************)
C9_OneStorePerFile ==
    \A i, j \in Instances :
        (i # j /\ stores[i].open /\ stores[j].open)
            => stores[i].log.file # stores[j].log.file

(***************************************************************************)
(* C10.  A store opened on a log that ends in a partial record has no      *)
(* directory entry whose value range extends past the end of the file.     *)
(***************************************************************************)
C10_NoEntryFromPartialRecord ==
    (stores[1].open /\ last.op = "open")
        => \A k \in DOMAIN stores[1].keydir :
               stores[1].keydir[k][1] + stores[1].keydir[k][2]
                   <= Len(File(1))

(***************************************************************************)
(* Scan results, for stating the properties.                               *)
(***************************************************************************)
\* a <= b in unsigned lexicographic byte order: a is a prefix of b, or a has
\* the smaller byte where they first differ
LexLeq(a, b) ==
    \/ /\ Len(a) <= Len(b)
       /\ \A n \in 1..Len(a) : a[n] = b[n]
    \/ \E n \in 1..Min(Len(a), Len(b)) :
          /\ a[n] < b[n]
          /\ \A o \in 1..(n - 1) : a[o] = b[o]

StartsWith(k, p) == Len(p) <= Len(k) /\ SubSeq(k, 1, Len(p)) = p

\* items are the keys of S, each once, ascending (descending when rev),
\* each with the value that get returns for it on store s with file f
IsScanOf(items, S, rev, s, f) ==
    /\ Len(items) = Cardinality(S)
    /\ \A n \in 1..Len(items) :
          /\ items[n].ok
          /\ items[n].val[1] \in S
          /\ get(s, f, items[n].val[1]) = Ok(Some(items[n].val[2]))
    /\ \A n \in 1..(Len(items) - 1) :
          LET lo == IF rev THEN items[n + 1].val[1] ELSE items[n].val[1]
              hi == IF rev THEN items[n].val[1] ELSE items[n + 1].val[1]
          IN  lo # hi /\ LexLeq(lo, hi)

(***************************************************************************)
(* C11.  scan([a, b)) iterated to its end yields exactly the keys K of the *)
(* directory with a <= K < b, each once with its current value, ascending  *)
(* when iterated forward and descending in reverse, for any a and b.       *)
(***************************************************************************)
C11_ScanRange ==
    (/\ last.op = "scan"
     /\ last.key[1].kind = "Included"
     /\ last.key[2].kind = "Excluded")
        => /\ ~last.died
           /\ stores[1].open
           /\ IsScanOf(last.val,
                       { k \in DOMAIN stores[1].keydir :
                           /\ LexLeq(last.key[1].key, k)
                           /\ k # last.key[2].key
                           /\ LexLeq(k, last.key[2].key) },
                       last.key[3], stores[1], File(1))

(***************************************************************************)
(* C12.  scan_prefix(P) yields exactly the keys of the directory that      *)
(* start with P, in ascending order, for every byte sequence P.            *)
(***************************************************************************)
C12_ScanPrefix ==
    last.op = "scan_prefix"
        => /\ ~last.died
           /\ stores[1].open
           /\ IsScanOf(last.val,
                       { k \in DOMAIN stores[1].keydir :
                           StartsWith(k, last.key) },
                       FALSE, stores[1], File(1))

(***************************************************************************)
(* C13.  scan_prefix of the empty prefix yields what the full scan yields: *)
(* every key of the directory, ascending.                                  *)
(***************************************************************************)
C13_EmptyPrefixIsFullScan ==
    (last.op = "scan_prefix" /\ last.key = <<>>)
        => /\ ~last.died
           /\ stores[1].open
           /\ last.val = scan(stores[1], File(1), Unbounded, Unbounded,
                              FALSE).items
           /\ Len(last.val) = Cardinality(DOMAIN stores[1].keydir)

(***************************************************************************)
(* C14.  scan_prefix of a prefix whose last byte is the largest byte       *)
(* completes without a fault and yields exactly the keys of the directory  *)
(* that start with the prefix.                                             *)
(***************************************************************************)
C14_PrefixEndingInMaxByte ==
    (/\ last.op = "scan_prefix"
     /\ last.key # <<>>
     /\ last.key[Len(last.key)] = ByteBase - 1)
        => /\ ~last.died
           /\ stores[1].open
           /\ \A n \in 1..Len(last.val) :
                 last.val[n].ok /\ StartsWith(last.val[n].val[1], last.key)
           /\ { last.val[n].val[1] : n \in 1..Len(last.val) }
                 = { k \in DOMAIN stores[1].keydir : StartsWith(k, last.key) }

(***************************************************************************)
(* C15.  A merge that follows a successful merge with nothing in between   *)
(* leaves a data file with the same bytes as the first.                    *)
(***************************************************************************)
C15_SecondMergeSameFile ==
    [][(/\ last.op = "merge" /\ last.ok /\ ~last.died
        /\ last'.op = "merge" /\ last'.ok /\ ~last'.died)
          => disk'[names'[path]] = disk[names[path]]]_vars

(***************************************************************************)
(* C16.  A merge that fails between the opening of the new Log and the     *)
(* rename leaves the data file as it was, the store on that file with its  *)
(* directory and its gets unchanged, and a data path that reopens to the   *)
(* directory of before the merge.                                          *)
(***************************************************************************)
\* what get returns for every key of the directory that load_index builds
\* from file f
ReopenView(f) ==
    LET idx == load_index(f)
    IN  [k \in DOMAIN idx.keydir |->
            get([keydir |-> idx.keydir], f, k)]

C16_FailedMergeLeavesStore ==
    [][(last'.op = "merge" /\ ~last'.ok /\ ~last'.died)
          => /\ names'[path] = names[path]
             /\ disk'[names'[path]] = disk[names[path]]
             /\ stores'[1].log.file = stores[1].log.file
             /\ stores'[1].keydir = stores[1].keydir
             /\ DirView(1)' = last'.val
             /\ ReopenView(disk'[names'[path]]) = last'.val]_vars

(***************************************************************************)
(* C17.  The data file of a store is, from byte 0 to its length, a         *)
(* concatenation of complete records with no partial record at the end:    *)
(* when MiniBitcask::new has returned the store, and again after every     *)
(* successful set, delete and merge on a store whose file was so.          *)
(***************************************************************************)
\* f from pos on is a concatenation of complete records
RECURSIVE CompleteRecords(_, _)
CompleteRecords(f, pos) ==
    \/ pos = Len(f)
    \/ /\ pos + 2 * KEY_VAL_HEADER_LEN <= Len(f)
       /\ LET kl  == Undigits(SubSeq(f, pos + 1, pos + KEY_VAL_HEADER_LEN))
              vl  == as_i32(Undigits(SubSeq(f, pos + KEY_VAL_HEADER_LEN + 1,
                                            pos + 2 * KEY_VAL_HEADER_LEN)))
              end == pos + 2 * KEY_VAL_HEADER_LEN + kl
                         + (IF vl < 0 THEN 0 ELSE vl)
          IN  end <= Len(f) /\ CompleteRecords(f, end)

C17_CompleteRecords ==
    [][/\ last'.op = "open" => CompleteRecords(disk'[stores'[1].log.file], 0)
       /\ (/\ stores[1].open
           /\ CompleteRecords(File(1), 0)
           /\ last'.op \in {"set", "delete", "merge"}
           /\ last'.ok
           /\ ~last'.died)
             => CompleteRecords(disk'[stores'[1].log.file], 0)]_vars

(***************************************************************************)
(* C18.  A key set to the empty value has a live record whose length field *)
(* is 0, not a tombstone: get returns Some(empty), also after a reopen.    *)
(***************************************************************************)
C18_EmptyValueIsLive ==
    stores[1].open =>
        \A k \in Keys :
            kv[k] = WasSet(<<>>) =>
                /\ get(stores[1], File(1), k) = Ok(Some(<<>>))
                /\ k \in DOMAIN stores[1].keydir
                /\ LET e    == stores[1].keydir[k]
                       recs == Records(File(1), 0)
                       n    == Latest(RecordsOf(recs, k))
                   IN  /\ e[2] = 0
                       /\ ~recs[n].tomb
                       /\ recs[n].offset = e[1]
                       /\ Bytes(File(1),
                                e[1] - Len(k) - KEY_VAL_HEADER_LEN,
                                KEY_VAL_HEADER_LEN) = to_be_bytes(0)

\* reopened on a log whose empty key was last set to the empty value
C18_Witness ==
    /\ stores[1].open
    /\ last.op = "open"
    /\ kv[<<>>] = WasSet(<<>>)
    /\ get(stores[1], File(1), <<>>) = Ok(Some(<<>>))

(***************************************************************************)
(* C19.  A drop syncs the data file the store owns, so nothing written     *)
(* before it is left unsynced once it is over; a set or a delete leaves    *)
(* its bytes unsynced; a failed sync does not keep the drop from ending.   *)
(***************************************************************************)
C19_DropSyncs ==
    /\ (last.op = "drop" /\ last.ok) => names[path] \notin dirty
    /\ last.op = "drop" => ~stores[last.inst].open
    /\ (last.op \in {"set", "delete"} /\ last.ok /\ stores[1].open)
           => stores[1].log.file \in dirty

\* dropped after a merge on a renamed file that holds records
C19_Witness ==
    /\ last.op = "drop"
    /\ last.ok
    /\ names[path] # 1
    /\ names[path] \notin dirty
    /\ disk[names[path]] # <<>>

(***************************************************************************)
(* C20.  A successful set or delete appends: the entry starts at the       *)
(* length the file had, its length is 8 + |key| + |value|, the file grows  *)
(* by that much and the bytes before it stay, wherever gets and scans left *)
(* the cursor.                                                             *)
(***************************************************************************)
C20_AppendOnly ==
    [][(/\ last'.op \in {"set", "delete"}
        /\ last'.ok
        /\ stores[1].open)
          => LET f   == File(1)
                 g   == disk'[stores'[1].log.file]
                 val == IF last'.op = "set" THEN last'.val ELSE None
                 n   == 2 * KEY_VAL_HEADER_LEN + Len(last'.key)
                          + (IF val = None THEN 0 ELSE Len(val[1]))
                 w   == write_entry(f, stores[1].log.cursor, last'.key,
                                    val, All)
             IN  /\ w.offset = Len(f)
                 /\ w.len = n
                 /\ Len(g) = Len(f) + n
                 /\ SubSeq(g, 1, Len(f)) = f]_vars

\* after a set that found the cursor away from the end of a file with two
\* records or more
C20_Witness ==
    /\ stores[1].open
    /\ last.op = "set"
    /\ last.ok
    /\ last.moved
    /\ Len(Records(File(1), 0)) >= 3

(***************************************************************************)
(* C21.  A successful merge that finds a sibling file left by an earlier   *)
(* merge overwrites it: the data file then holds the live entries and      *)
(* nothing else, and reopens to the directory the store has.               *)
(***************************************************************************)
C21_MergeOverwritesLeftover ==
    [][(/\ merge_path(path) # path
        /\ merge_path(path) \in DOMAIN names
        /\ disk[names[merge_path(path)]] # <<>>
        /\ last'.op = "merge" /\ last'.ok /\ ~last'.died)
          => /\ Len(disk'[names'[path]])
                  = LiveSize(stores'[1].keydir, DOMAIN stores'[1].keydir)
             /\ ReopenView(disk'[names'[path]]) = DirView(1)']_vars

(***************************************************************************)
(* C22.  The file that a successful merge leaves is one value record per   *)
(* key of the directory, in ascending key order, with no tombstone, and    *)
(* the directory maps every key to the value offset of its record.         *)
(***************************************************************************)
C22_MergedFileIsLiveRecords ==
    (stores[1].open /\ last.op = "merge" /\ last.ok /\ ~last.died)
        => LET recs == Records(File(1), 0)
               dir  == stores[1].keydir
           IN  /\ CompleteRecords(File(1), 0)
               /\ Len(recs) = Cardinality(DOMAIN dir)
               /\ \A n \in 1..Len(recs) :
                     /\ ~recs[n].tomb
                     /\ recs[n].key \in DOMAIN dir
                     /\ dir[recs[n].key]
                            = <<recs[n].offset, Len(recs[n].value)>>
               /\ \A n \in 1..(Len(recs) - 1) :
                     /\ recs[n].key # recs[n + 1].key
                     /\ LexLeq(recs[n].key, recs[n + 1].key)

(***************************************************************************)
(* C27.  The sibling path that merge derives differs from the data path,   *)
(* and the merge writes nothing into the file that is the data file when   *)
(* it starts.                                                              *)
(***************************************************************************)
C27_SiblingIsNotDataFile ==
    [][last'.op = "merge"
          => /\ set_extension(path, MERGE_FILE_EXT) # path
             /\ names[path] \in DOMAIN disk'
                   => disk'[names[path]] = disk[names[path]]]_vars

(***************************************************************************)
(* C23.  A value whose length has the top bit of the value size field set  *)
(* is a live entry: get returns it, its record carries a value size that   *)
(* is not a tombstone's, and the key is in the directory, also after the   *)
(* store was reopened.                                                     *)
(***************************************************************************)
C23_WideValueIsLive ==
    stores[1].open =>
        \A k \in Keys :
            (/\ kv[k].st = "set"
             /\ 2 * Len(kv[k].val) >= Modulus
             /\ Len(kv[k].val) < Modulus)
                => /\ get(stores[1], File(1), k) = Ok(Some(kv[k].val))
                   /\ k \in DOMAIN stores[1].keydir
                   /\ LET recs == Records(File(1), 0)
                      IN  /\ RecordsOf(recs, k) # {}
                          /\ ~recs[Latest(RecordsOf(recs, k))].tomb

(***************************************************************************)
(* C24.  The scan of the log on open takes a record with any negative      *)
(* value size for a tombstone: it removes the key, skips no value bytes    *)
(* and goes on at 8 + key_len cells after the start of the record, so in   *)
(* a log of whole records the records behind it are read where they are.   *)
(***************************************************************************)
C24_NegativeSizeIsTombstone ==
    (stores[1].open /\ last.op = "open") =>
        LET f    == File(1)
            recs == Records(f, 0)
            dir  == stores[1].keydir
        IN  /\ \A n \in 1..Len(recs) :
                  recs[n].tomb =>
                    LET start == recs[n].offset - Len(recs[n].key)
                                     - 2 * KEY_VAL_HEADER_LEN
                        st == [pos     |-> start,
                               rpos    |-> start,
                               len_buf |-> Zeros(KEY_VAL_HEADER_LEN),
                               keydir  |-> load_index(SubSeq(f, 1, start)).keydir,
                               root    |-> FALSE]
                        nx == load_match(st, read_one(f, start, start,
                                                      st.len_buf))
                    IN  /\ nx.pos = start + 2 * KEY_VAL_HEADER_LEN
                                          + Len(recs[n].key)
                        /\ nx.rpos = nx.pos
                        /\ recs[n].key \notin DOMAIN nx.keydir
            /\ CompleteRecords(f, 0) =>
                  \A n \in 1..Len(recs) :
                      n = Latest(RecordsOf(recs, recs[n].key))
                          => IF recs[n].tomb
                             THEN recs[n].key \notin DOMAIN dir
                             ELSE /\ recs[n].key \in DOMAIN dir
                                  /\ dir[recs[n].key]
                                        = <<recs[n].offset,
                                            Len(recs[n].value)>>

\* opened on a log with a record of a value size below -1 that is the
\* last record of its key, a value record before it and one behind it
C24_Witness ==
    /\ stores[1].open
    /\ last.op = "open"
    /\ LET recs == Records(File(1), 0)
       IN  /\ Len(recs) = 3
           /\ ~recs[1].tomb
           /\ recs[2].tomb
           /\ recs[2].key = recs[1].key
           /\ recs[3].key # recs[2].key
           /\ ~recs[3].tomb
           /\ i32_from_be_bytes(SubSeq(File(1),
                   recs[2].offset - Len(recs[2].key) - KEY_VAL_HEADER_LEN + 1,
                   recs[2].offset - Len(recs[2].key))) < -1
           /\ DOMAIN stores[1].keydir = {recs[3].key}

(***************************************************************************)
(* C26.  A set or a delete whose append returns an I/O error leaves the    *)
(* key directory as it was, and get of every key returns what it returned  *)
(* before.                                                                 *)
(***************************************************************************)
C26_FailedAppendKeepsGets ==
    [][(last'.op \in {"set", "delete"} /\ ~last'.ok /\ ~last'.died)
          => /\ stores'[1].keydir = stores[1].keydir
             /\ \A k \in AllKeys :
                   get(stores'[1], disk'[stores'[1].log.file], k)
                       = get(stores[1], File(1), k)]_vars

(***************************************************************************)
(* C25.  Making a scan or scan_prefix iterator and calling it any number   *)
(* of times, forward or backward, leaves the key directory and the bytes   *)
(* of the data file as they were, and an item that is an I/O failure does  *)
(* not end the iteration: each call yields the next key left at its end of *)
(* the range, with its value, whether or not earlier calls failed.         *)
(***************************************************************************)
C25_IterationIsReadOnly ==
    [][(last'.op \in {"iter", "iter_prefix"} /\ ~last'.died)
          => /\ stores'[1].keydir = stores[1].keydir
             /\ disk' = disk
             /\ names' = names
             /\ LET keys  == last'.key[1]
                    calls == last'.key[2]
                    fails == last'.key[3]
                    items == last'.val
                    dir   == stores[1].keydir
                IN  /\ Len(items) = Len(calls)
                    /\ \A n \in 1..Len(calls) :
                          LET nf == Cardinality({ m \in 1..(n - 1) :
                                                   calls[m] = "next" })
                              nb == (n - 1) - nf
                              k  == IF calls[n] = "next" THEN keys[nf + 1]
                                    ELSE keys[Len(keys) - nb]
                          IN  items[n] =
                                IF n - 1 >= Len(keys) THEN None
                                ELSE IF n \in fails THEN Some(Err)
                                ELSE Some(Ok(<<k, Bytes(File(1), dir[k][1],
                                                       dir[k][2])>>))]_vars

\* after calls from both ends of a range of three keys, of which the
\* second failed and the third yielded a key and its value
C25_Witness ==
    /\ stores[1].open
    /\ last.op = "iter"
    /\ Len(last.key[1]) = 3
    /\ last.key[2] = <<"next", "next_back", "next">>
    /\ last.val[2] = Some(Err)
    /\ \E v \in Values \ {<<>>} : last.val[3] = Some(Ok(<<last.key[1][2], v>>))

====
